---- MODULE Spec2Model ----
(***************************************************************************)
(* Model of the Honolulu Flu engine (src/hf/flu.py) on top of the schedule *)
(* provider (src/hf/espn.py).                                              *)
(*                                                                         *)
(* Optional values of the Python code are modelled as sequences of length  *)
(* at most one: None is <<>>, a present value v is <<v>>.  An ISO date     *)
(* string is represented by the instant it denotes (a positive integer),   *)
(* so that the string order of two ISO dates is the order of the integers. *)
(***************************************************************************)
EXTENDS Integers, Sequences, FiniteSets, TLC

VARIABLES
    cache,      \* lru_cache of get_team_schedule: <<team_id, season>> -> list of game records
    failed,     \* keys whose fetch from the upstream source hit a transport failure
    args,       \* arguments of the running call of compute_honolulu_flu
    pc,         \* position in compute_honolulu_flu: "idle", "season", "game", "done", "raised"
    si,         \* index into args.seasons of the season being processed
    gi,         \* index into subject_schedule of the game being processed
    subject_schedule,  \* the filtered schedule of the subject team for the current season
    rows,       \* the GameRow list built so far (the return value once pc = "done")
    links,      \* per row, the locals of the iteration that built it (game, opp_sched, next_sched, next_row)
    upstream,   \* per key contacted so far: what the upstream source answered, and how often it was asked
    calls,      \* number of times compute_honolulu_flu was entered
    last_fetched,  \* whether st.session_state holds "last_fetched"
    cleared,    \* whether the running page run called st.cache_data.clear()
    history,    \* the arguments and outcomes of the finished calls of compute_honolulu_flu
    kpi,        \* the aggregate computed from rows: the engine's and the two pages'
    fetch       \* one call of get_team_schedule on raw upstream responses, and its outcome

\* the variables of the pages around compute_honolulu_flu
page == <<calls, last_fetched, cleared, history>>

vars == <<cache, failed, args, pc, si, gi, subject_schedule, rows, links,
          upstream, calls, last_fetched, cleared, history, kpi, fetch>>

----------------------------------------------------------------------------
\* Bounds of the model

\* latest instant a game date may denote (dates are 1..MaxTs, or missing)
MaxTs == 2
\* largest week number of a game record
MaxWeek == 2
\* latest season a caller may ask games for (the start of a season range may lie one
\* season later); records may carry seasons up to MaxSeason + 1
MaxSeason == 1
\* largest number of games the upstream source reports for an opponent in one season
MaxGames == 2
\* largest number of games the upstream source reports for the subject team in one season
MaxSubjectGames == 1

----------------------------------------------------------------------------
\* Optional values

None == <<>>
Some(v) == <<v>>

\* season types of the upstream source
REGULAR == 2
POSTSEASON == 3
\* a season type that compute_honolulu_flu filters out
PRESEASON == 1

SubjectTeam == "S"
\* the opponents of the subject team
Opponents == {"X", "Y"}

----------------------------------------------------------------------------
\* Game records (the dicts built by _parse_game)

\* One record of a schedule.  The result decides the scores shown with it.
GameRecord(d, c, y, t, w, res, opp) ==
    [ date |-> d, completed |-> c, season |-> y, season_type |-> t,
      week |-> w, week_text |-> Some("wk"), is_home |-> TRUE,
      team_score |-> IF res = None THEN None ELSE Some(IF res = Some("L") THEN 0 ELSE 1),
      opp_id |-> Some(opp), opp_name |-> Some(opp),
      opp_score |-> IF res = None THEN None ELSE Some(IF res = Some("W") THEN 0 ELSE 1),
      team_result |-> res ]

Dates == {None} \cup {Some(t) : t \in 1..MaxTs}
Weeks == {None} \cup {Some(w) : w \in 1..MaxWeek}
RecordSeasons == {Some(y) : y \in 1..(MaxSeason + 1)}
SeasonTypes == {REGULAR, POSTSEASON}
Results == {None, Some("W"), Some("L"), Some("T")}

\* completed and team_result as _parse_game can produce them: a result only when completed
Outcomes == {<<FALSE, None>>} \cup {<<TRUE, r>> : r \in Results}

\* The upstream data the model ranges over, per team and requested season (key is
\* <<team_id, season>>).  The season of a record is what the upstream event says
\* (_parse_game reads event.season.year), not the season that was asked for.
\*
\* The subject team: every date, outcome, season type (the preseason too), week and
\* opponent.
SubjectRecords(key) ==
    { GameRecord(d, o[1], Some(key[2]), t, w, o[2], opp) :
        d \in Dates, o \in Outcomes, t \in SeasonTypes \cup {PRESEASON}, w \in Weeks,
        opp \in Opponents }

\* Opponent X in a season a caller may ask for: every date and season, regular-season
\* games of every week and postseason games; all lost.
RecordsOfX(key) ==
    IF key[2] <= MaxSeason
    THEN { GameRecord(d, TRUE, y, tw[1], tw[2], Some("L"), SubjectTeam) :
             d \in Dates, y \in RecordSeasons,
             tw \in ({REGULAR} \X (Weeks \ {None})) \cup {<<POSTSEASON, None>>} }
    ELSE { GameRecord(Some(1), TRUE, Some(key[2]), REGULAR, Some(1), Some("W"), SubjectTeam) }

\* Opponent Y in a season a caller may ask for: one slot (last date, last week of the
\* regular season) with every outcome; in the season after: every date, season and
\* season type, all lost.
RecordsOfY(key) ==
    IF key[2] <= MaxSeason
    THEN { GameRecord(Some(MaxTs), o[1], Some(key[2]), REGULAR, Some(MaxWeek), o[2], SubjectTeam) :
             o \in Outcomes }
    ELSE { GameRecord(d, TRUE, y, t, Some(1), Some("L"), SubjectTeam) :
             d \in Dates, y \in RecordSeasons, t \in SeasonTypes }

RecordsOf(key) ==
    IF key[1] = SubjectTeam THEN SubjectRecords(key)
    ELSE IF key[1] = "X" THEN RecordsOfX(key)
    ELSE RecordsOfY(key)

\* the number of events the upstream source reports for a team in one season
MaxGamesOf(key) == IF key[1] = SubjectTeam THEN MaxSubjectGames ELSE MaxGames

----------------------------------------------------------------------------
\* src/hf/flu.py: helpers

\* int(dateparser.parse(date_str).timestamp()), None for a missing or unparsable date
_parse_iso(date_str) == IF date_str = None THEN None ELSE Some(date_str[1])

\* "_parse_iso(...) or 0"
TsOrZero(date_str) == IF _parse_iso(date_str) = None THEN 0 ELSE _parse_iso(date_str)[1]

RECURSIVE next_week_loop(_, _, _)
next_week_loop(opponent_schedule, i, target_week) ==
    IF i > Len(opponent_schedule) THEN None
    ELSE LET row == opponent_schedule[i] IN
         IF row.season_type # REGULAR
         THEN next_week_loop(opponent_schedule, i + 1, target_week)
         ELSE IF row.week = Some(target_week)
              THEN Some(row)
              ELSE next_week_loop(opponent_schedule, i + 1, target_week)

_pick_next_week_game(opponent_schedule, target_week) ==
    next_week_loop(opponent_schedule, 1, target_week)

\* the loop shared by the two "next game after" pickers; best is None or Some(<<ts, row>>)
RECURSIVE pick_loop(_, _, _, _, _, _)
pick_loop(opponent_schedule, i, after_ts, season, season_type, best) ==
    IF i > Len(opponent_schedule) THEN best
    ELSE LET row == opponent_schedule[i]
             ts == _parse_iso(row.date)
             skip == \/ (season # None /\ row.season # season)
                     \/ (season_type # None /\ Some(row.season_type) # season_type)
                     \/ ts = None
                     \/ (ts # None /\ ts[1] <= after_ts)
             better == best = None \/ (best # None /\ ts[1] < best[1][1])
         IN  IF skip \/ ~better
             THEN pick_loop(opponent_schedule, i + 1, after_ts, season, season_type, best)
             ELSE pick_loop(opponent_schedule, i + 1, after_ts, season, season_type,
                            Some(<<ts[1], row>>))

\* the filtered picker with the season_type filter left out
pick_without_season_type_filter(opponent_schedule, after_ts, season, season_type) ==
    LET best == pick_loop(opponent_schedule, 1, after_ts, season, None, None)
    IN  IF best = None THEN None ELSE Some(best[1][2])

_pick_next_game_after_with_filters(opponent_schedule, after_ts, season, season_type) ==
    LET best == pick_loop(opponent_schedule, 1, after_ts, season, season_type, None)
    IN  IF best = None THEN None ELSE Some(best[1][2])

_pick_next_game_after(opponent_schedule, lions_game_ts) ==
    LET best == pick_loop(opponent_schedule, 1, lions_game_ts, None, None, None)
    IN  IF best = None THEN None ELSE Some(best[1][2])

\* Python's stable sort on decorated pairs <<key, row>>: each pair is inserted after
\* the pairs whose key is not larger
RECURSIVE insert_pair(_, _)
insert_pair(sorted_pairs, pair) ==
    IF sorted_pairs = <<>> THEN <<pair>>
    ELSE IF Head(sorted_pairs)[1] <= pair[1]
         THEN <<Head(sorted_pairs)>> \o insert_pair(Tail(sorted_pairs), pair)
         ELSE <<pair>> \o sorted_pairs

RECURSIVE sort_pairs(_)
sort_pairs(pairs) ==
    IF pairs = <<>> THEN <<>>
    ELSE insert_pair(sort_pairs(SubSeq(pairs, 1, Len(pairs) - 1)), pairs[Len(pairs)])

\* sorted(list, key=lambda r: _parse_iso(r.get("date")) or 0)
sorted_by_ts(list) ==
    LET pairs == sort_pairs([i \in 1..Len(list) |-> <<TsOrZero(list[i].date), list[i]>>])
    IN  [i \in 1..Len(list) |-> pairs[i][2]]

\* sorted([r for r in next_sched if r.get("season_type") == 2], key=ts or 0)[0], or None
FirstRegularOf(next_sched) ==
    LET IsRegular(r) == r.season_type = REGULAR
        next_sched_sorted == sorted_by_ts(SelectSeq(next_sched, IsRegular))
    IN  IF next_sched_sorted = <<>> THEN None ELSE Some(next_sched_sorted[1])

\* sorted(next_sched, key=ts or 0)[0], or None
FirstOf(next_sched) ==
    LET next_sched_sorted == sorted_by_ts(next_sched)
    IN  IF next_sched_sorted = <<>> THEN None ELSE Some(next_sched_sorted[1])

----------------------------------------------------------------------------
\* src/hf/espn.py: the schedule provider

\* parsed.sort(key=lambda r: (r.get("date") or "")): a missing date sorts first
sort_by_date(parsed) ==
    LET DateKey(r) == IF r.date = None THEN 0 ELSE r.date[1]
        pairs == sort_pairs([i \in 1..Len(parsed) |-> <<DateKey(parsed[i]), parsed[i]>>])
    IN  [i \in 1..Len(parsed) |-> pairs[i][2]]

Lists(S, n) == UNION {[1..k -> S] : k \in 0..n}

\* What a call of get_team_schedule(team_id, season) that is not served from the
\* cache can do.  error is
\*   "transport" when the fetch of both partitions raises inside the try block (connection
\*               error, HTTP status, invalid JSON): the except clause swallows it and the
\*               call returns the empty list;
\*   "payload"   when a fetch succeeds with JSON that is not an object: data.get raises
\*               outside the try block and the exception leaves get_team_schedule;
\*   "none"      otherwise: the parsed events, sorted by date, are returned.
Upstream(key) ==
    {[games |-> <<>>, error |-> "transport"], [games |-> <<>>, error |-> "payload"]}
    \cup {[games |-> sort_by_date(parsed), error |-> "none"] :
            parsed \in Lists(RecordsOf(key), MaxGamesOf(key))}

\* The upstream source does not change while the program runs: a key that was asked
\* before gets the answer it got then, a key asked for the first time any answer.
Respond(src, key) ==
    IF key \in DOMAIN src
    THEN {[games |-> src[key].games, error |-> src[key].error]}
    ELSE Upstream(key)

\* get_team_schedule under @lru_cache: the possible outcomes of a call with the cache c
\* and the answers src the upstream source gave so far
get_team_schedule(c, src, key) ==
    IF key \in DOMAIN c
    THEN {[games |-> c[key], error |-> "none"]}
    ELSE Respond(src, key)

\* the answers of the upstream source after the call returned result: a call served
\* from the cache does not contact the source
Contact(c, src, key, result) ==
    IF key \in DOMAIN c THEN src
    ELSE IF key \in DOMAIN src THEN [src EXCEPT ![key].contacts = @ + 1]
    ELSE src @@ (key :> [games |-> result.games, error |-> result.error, contacts |-> 1])

\* a cache that stores the key of a call with an empty schedule, whatever was returned
memoize_key_only(c, key, result) ==
    IF key \in DOMAIN c \/ result.error = "payload" THEN c ELSE c @@ (key :> <<>>)

\* the cache after the call returned result (lru_cache stores return values only)
Memoize(c, key, result) ==
    IF key \in DOMAIN c \/ result.error = "payload" THEN c ELSE c @@ (key :> result.games)

\* the keys whose fetch hit a transport failure, after the call returned result
NoteFailure(c, f, key, result) ==
    IF key \notin DOMAIN c /\ result.error = "transport" THEN f \cup {key} ELSE f

----------------------------------------------------------------------------
\* src/hf/flu.py: GameRow and compute_honolulu_flu

\* str(game.get("opp_id"))
OppId(game) == IF game.opp_id = None THEN "None" ELSE game.opp_id[1]

\* whether the iteration calls get_team_schedule(opp_id, season + 1)
NeedsNextSeason(game, follow_mode, season, opp_sched) ==
    LET lions_game_ts == TsOrZero(game.date)
        is_playoffs_game == game.season_type = POSTSEASON
    IN  IF is_playoffs_game
        THEN game.team_result # Some("L")
        ELSE IF follow_mode = "week"
             THEN LET next_row == IF game.week # None
                                  THEN _pick_next_week_game(opp_sched, game.week[1] + 1)
                                  ELSE None
                  IN  /\ next_row = None
                      /\ _pick_next_game_after_with_filters(
                             opp_sched, lions_game_ts, Some(season), None) = None
             ELSE _pick_next_game_after(opp_sched, lions_game_ts) = None

\* the locals next_row, after_bye, cross_season at the end of one iteration
Locals(row, bye, cross) == [next_row |-> row, after_bye |-> bye, cross_season |-> cross]

\* "if is_playoffs_game:": the opponent plays on when the subject team lost, and is
\* eliminated otherwise
ResolvePlayoffs(game, season, opp_sched, next_sched) ==
    LET lions_game_ts == TsOrZero(game.date)
        lions_result == game.team_result
    IN  IF lions_result = Some("L")
        THEN Locals(_pick_next_game_after_with_filters(
                        opp_sched, lions_game_ts, Some(season), Some(POSTSEASON)),
                    FALSE, FALSE)
        ELSE LET next_row == FirstRegularOf(next_sched)
             IN  Locals(next_row, FALSE, next_row # None)

\* the week branch with after_bye set as soon as the next week has no game, before the
\* fallback to the next season is tried
next_week_bye_before_fallback(game, season, opp_sched, next_sched) ==
    LET lions_game_ts == TsOrZero(game.date)
        week == game.week
        next_row == IF week # None THEN _pick_next_week_game(opp_sched, week[1] + 1) ELSE None
    IN  IF next_row # None
        THEN Locals(next_row, FALSE, FALSE)
        ELSE LET any_later_same_season ==
                     _pick_next_game_after_with_filters(
                         opp_sched, lions_game_ts, Some(season), None) # None
             IN  IF any_later_same_season
                 THEN Locals(None, TRUE, FALSE)
                 ELSE LET fallback == FirstRegularOf(next_sched)
                      IN  Locals(fallback, TRUE, fallback # None)

\* "if follow_mode == 'week':": the game of the next week, a bye, or the first
\* regular-season game of the next season
ResolveNextWeek(game, season, opp_sched, next_sched) ==
    LET lions_game_ts == TsOrZero(game.date)
        week == game.week
        next_row == IF week # None THEN _pick_next_week_game(opp_sched, week[1] + 1) ELSE None
    IN  IF next_row # None
        THEN Locals(next_row, FALSE, FALSE)
        ELSE LET any_later_same_season ==
                     _pick_next_game_after_with_filters(
                         opp_sched, lions_game_ts, Some(season), None) # None
             IN  IF any_later_same_season
                 THEN Locals(None, TRUE, FALSE)
                 ELSE LET fallback == FirstRegularOf(next_sched)
                      IN  Locals(fallback, FALSE, fallback # None)

\* "else:" (follow_mode == 'game'): the next game played, or the first game of the
\* next season
ResolveNextGame(game, season, opp_sched, next_sched) ==
    LET lions_game_ts == TsOrZero(game.date)
        next_row == _pick_next_game_after(opp_sched, lions_game_ts)
    IN  IF next_row # None
        THEN Locals(next_row, FALSE, FALSE)
        ELSE LET fallback == FirstOf(next_sched)
             IN  Locals(fallback, FALSE, fallback # None)

\* the branch of the loop body that resolves the next game; next_sched is read only
\* where NeedsNextSeason holds
Resolve(game, follow_mode, season, opp_sched, next_sched) ==
    IF game.season_type = POSTSEASON
    THEN ResolvePlayoffs(game, season, opp_sched, next_sched)
    ELSE IF follow_mode = "week"
         THEN ResolveNextWeek(game, season, opp_sched, next_sched)
         ELSE ResolveNextGame(game, season, opp_sched, next_sched)

\* str(game.get("date")): the text of the date, and the text "None" when the game has
\* no date
str(date) ==
    IF date = None THEN [is_text_None |-> TRUE, instant |-> 0]
    ELSE [is_text_None |-> FALSE, instant |-> date[1]]

\* (next_row or {}).get(field)
NextField(next_row, field) == IF next_row = None THEN None ELSE next_row[1][field]

\* the GameRow appended at the end of one iteration
GameRow(season, game, link) ==
    [ season |-> season,
      week |-> game.week,
      week_label |-> game.week_text,
      date |-> str(game.date),
      is_home |-> game.is_home,
      opp_id |-> OppId(game),
      opp_name |-> IF game.opp_name = None THEN "" ELSE game.opp_name[1],
      lions_result |-> game.team_result,
      lions_team_score |-> game.team_score,
      lions_opp_score |-> game.opp_score,
      opp_next_date |-> NextField(link.next_row, "date"),
      opp_next_week |-> NextField(link.next_row, "week"),
      opp_next_week_label |-> NextField(link.next_row, "week_text"),
      opp_next_result |-> NextField(link.next_row, "team_result"),
      opp_next_opp_name |-> NextField(link.next_row, "opp_name"),
      opp_next_team_score |-> NextField(link.next_row, "team_score"),
      opp_next_opp_score |-> NextField(link.next_row, "opp_score"),
      opp_next_after_bye |-> link.after_bye,
      opp_next_cross_season |-> link.cross_season,
      opp_next_is_home |-> IF link.next_row = None THEN None
                           ELSE Some(link.next_row[1].is_home) ]

\* a verdict that is never null: the test for a missing result is dropped
flu_without_null_test(row) == Some(row.opp_next_result = Some("L"))

\* a verdict read from the subject team's side of the anchoring game
flu_from_subject_result(row) ==
    IF row.opp_next_result = None THEN None ELSE Some(row.lions_result = Some("W"))

\* GameRow.honolulu_flu_loss
honolulu_flu_loss(row) ==
    IF row.opp_next_result = None THEN None ELSE Some(row.opp_next_result = Some("L"))

\* the quotient n / d of two floats, kept as the pair of its numerator and denominator
Ratio(n, d) == <<n, d>>

\* summarize_percentage: <<losses, total, pct>>; pct is None when total = 0, else
\* losses / total * 100.0
summarize_percentage(rs) ==
    LET considered == SelectSeq(rs, LAMBDA r : honolulu_flu_loss(r) # None)
        total == Len(considered)
        losses == Len(SelectSeq(considered, LAMBDA r : honolulu_flu_loss(r) = Some(TRUE)))
    IN  <<losses, total, IF total > 0 THEN Some(Ratio(losses * 100, total)) ELSE None>>

\* src/app.py, the column "Honolulu Flu" of the data frame built from the rows
HonoluluFluColumn(r) ==
    IF honolulu_flu_loss(r) = Some(TRUE) THEN "Yes"
    ELSE IF honolulu_flu_loss(r) # None THEN "No" ELSE "-"

\* src/app.py, _fmt_next: whether the column "Opp Next Outcome" of a row reads "Bye"
IsBye(r, follow_mode) ==
    follow_mode = "week" /\ r.opp_next_after_bye /\ r.opp_next_result = None

\* src/app.py, "KPIs computed from filtered data": <<losses, total, pct>>
app_kpis(rs, follow_mode) ==
    IF rs # <<>>
    THEN LET considered == SelectSeq(rs, LAMBDA r : /\ HonoluluFluColumn(r) \in {"Yes", "No"}
                                                    /\ ~IsBye(r, follow_mode))
             losses == Len(SelectSeq(considered, LAMBDA r : HonoluluFluColumn(r) = "Yes"))
             total == Len(considered)
         IN  <<losses, total, IF total # 0 THEN Ratio(losses * 100, total) ELSE Ratio(0, 1)>>
    ELSE <<0, 0, Ratio(0, 1)>>

\* src/pages/Compare_All_Teams.py, _compute_all_rows, the body of the loop for one team
\* whose rows are rs.  pd.DataFrame([]) has no columns, so df["opp_next_result"] raises
\* KeyError when the team has no rows; nothing catches it.  Otherwise the sum of the
\* flu column over the considered rows, their number, and the percentage.
compare_team(rs) ==
    IF rs = <<>>
    THEN [error |-> "KeyError", losses |-> 0, total |-> 0, pct |-> Ratio(0, 1)]
    ELSE LET considered == SelectSeq(rs, LAMBDA r : r.opp_next_result \in
                                                       {Some("W"), Some("L"), Some("T")})
             total == Len(considered)
             flu_sum == Len(SelectSeq(considered, LAMBDA r : honolulu_flu_loss(r) = Some(TRUE)))
         IN  [error |-> "none", losses |-> flu_sum, total |-> total,
              pct |-> IF total # 0 THEN Ratio(flu_sum * 100, total) ELSE Ratio(0, 1)]

----------------------------------------------------------------------------
\* The callers' arguments (src/app.py, src/pages/Compare_All_Teams.py)

\* list(range(start, end + 1)) if end >= start else []
SeasonRange(start, end) == IF end >= start THEN [i \in 1..(end - start + 1) |-> start + i - 1] ELSE <<>>

\* the season lists of the pages: "From season" start, "Through season" end
SeasonLists == {SeasonRange(start, end) : start \in 1..(MaxSeason + 1), end \in 1..MaxSeason}

Arguments ==
    [ seasons : SeasonLists, play_mode : {"play", "beat"}, follow_mode : {"week", "game"},
      subject_team_id : {SubjectTeam} ]

NoArgs == [seasons |-> <<>>, play_mode |-> "play", follow_mode |-> "week",
           subject_team_id |-> SubjectTeam]

\* should_refresh(last_fetched): true when nothing was fetched in this session, and
\* otherwise when the clock says so (six hours passed, or a post-game window is open)
should_refresh(fetched_before, due) == ~fetched_before \/ due

----------------------------------------------------------------------------
\* The state machine of one call of compute_honolulu_flu

Init ==
    /\ cache = <<>>
    /\ failed = {}
    /\ args = NoArgs
    /\ pc = "idle"
    /\ si = 0
    /\ gi = 0
    /\ subject_schedule = <<>>
    /\ rows = <<>>
    /\ links = <<>>
    /\ upstream = <<>>
    /\ calls = 0
    /\ last_fetched = FALSE
    /\ cleared = FALSE
    /\ history = {}
    /\ kpi = None
    /\ fetch = None

\* Control after a statement: the inner loop ends when the games of the season are
\* exhausted, the outer loop when the seasons are, and then "return rows" is reached.
\* s and g are the indices of the season and of the next game, sched the season's games.
PcAfter(seasons, s, g, sched) ==
    IF s > Len(seasons) THEN "done"
    ELSE IF g <= Len(sched) THEN "game"
    ELSE IF s + 1 > Len(seasons) THEN "done" ELSE "season"

SiAfter(seasons, s, g, sched) ==
    IF s <= Len(seasons) /\ g > Len(sched) THEN s + 1 ELSE s

\* a page run that enters compute_honolulu_flu whatever the season list is
page_run_without_range_check ==
    /\ pc = "idle"
    /\ \E a \in Arguments, due \in BOOLEAN :
           /\ args' = a
           /\ pc' = "season"
           /\ cleared' = should_refresh(last_fetched, due)
           /\ last_fetched' = TRUE
           /\ calls' = calls + 1
    /\ si' = 1
    /\ gi' = 0
    /\ rows' = <<>>
    /\ links' = <<>>
    /\ subject_schedule' = <<>>
    /\ UNCHANGED <<cache, failed, upstream, history, kpi, fetch>>

\* a page run whose refresh empties the cache of get_team_schedule as well
page_run_refresh_clears_schedules ==
    /\ pc = "idle"
    /\ \E a \in Arguments, due \in BOOLEAN :
           /\ args' = a
           /\ IF a.seasons = <<>>
              THEN /\ pc' = "done"
                   /\ cleared' = FALSE
                   /\ UNCHANGED <<calls, last_fetched, cache>>
              ELSE /\ pc' = "season"
                   /\ cleared' = should_refresh(last_fetched, due)
                   /\ cache' = IF should_refresh(last_fetched, due) THEN <<>> ELSE cache
                   /\ last_fetched' = TRUE
                   /\ calls' = calls + 1
    /\ si' = 1
    /\ gi' = 0
    /\ rows' = <<>>
    /\ links' = <<>>
    /\ subject_schedule' = <<>>
    /\ UNCHANGED <<failed, upstream, history, kpi, fetch>>

\* A page run with the filters a.  With an empty season list ("else: rows = []")
\* nothing is refreshed or computed.  Otherwise st.cache_data.clear() is called when
\* should_refresh says so (it empties Streamlit's data cache, whose entries expire at
\* once under ttl=0; the lru_cache of get_team_schedule is not part of it), and
\* compute_honolulu_flu(seasons, play_mode, follow_mode, subject_team_id) is entered.
Call ==
    /\ pc = "idle"
    /\ \E a \in Arguments, due \in BOOLEAN :
           /\ args' = a
           /\ IF a.seasons = <<>>
              THEN /\ pc' = "done"
                   /\ cleared' = FALSE
                   /\ UNCHANGED <<calls, last_fetched>>
              ELSE /\ pc' = "season"
                   /\ cleared' = should_refresh(last_fetched, due)
                   /\ last_fetched' = TRUE
                   /\ calls' = calls + 1
    /\ si' = 1
    /\ gi' = 0
    /\ rows' = <<>>
    /\ links' = <<>>
    /\ subject_schedule' = <<>>
    /\ UNCHANGED <<cache, failed, upstream, history, kpi, fetch>>

\* "for season in seasons": the subject team's schedule is fetched and filtered; an
\* exception of get_team_schedule leaves compute_honolulu_flu
FetchSubjectSchedule ==
    /\ pc = "season"
    /\ si <= Len(args.seasons)
    /\ LET key == <<args.subject_team_id, args.seasons[si]>>
       IN  \E result \in get_team_schedule(cache, upstream, key) :
             LET sched == SelectSeq(result.games,
                                    LAMBDA r : r.season_type \in {REGULAR, POSTSEASON})
             IN  /\ cache' = Memoize(cache, key, result)
                 /\ failed' = NoteFailure(cache, failed, key, result)
                 /\ upstream' = Contact(cache, upstream, key, result)
                 /\ IF result.error = "payload"
                    THEN /\ pc' = "raised"
                         /\ UNCHANGED <<subject_schedule, si, gi>>
                    ELSE /\ subject_schedule' = sched
                         /\ pc' = PcAfter(args.seasons, si, 1, sched)
                         /\ si' = SiAfter(args.seasons, si, 1, sched)
                         /\ gi' = 1
    /\ UNCHANGED <<args, rows, links, page, kpi, fetch>>

\* whether the loop body skips the game ("continue")
Skipped(game, play_mode) ==
    \/ ~game.completed
    \/ (play_mode = "beat" /\ game.team_result # Some("W"))

\* a game of the subject team that does not qualify
SkipGame ==
    /\ pc = "game"
    /\ gi <= Len(subject_schedule)
    /\ Skipped(subject_schedule[gi], args.play_mode)
    /\ gi' = gi + 1
    /\ pc' = PcAfter(args.seasons, si, gi + 1, subject_schedule)
    /\ si' = SiAfter(args.seasons, si, gi + 1, subject_schedule)
    /\ UNCHANGED <<cache, failed, args, subject_schedule, rows, links, upstream, page, kpi, fetch>>

\* the iteration of the loop body appended row, built from the locals in link
Appended(row, link) ==
    /\ rows' = Append(rows, row)
    /\ links' = Append(links, link)
    /\ gi' = gi + 1
    /\ pc' = PcAfter(args.seasons, si, gi + 1, subject_schedule)
    /\ si' = SiAfter(args.seasons, si, gi + 1, subject_schedule)

\* an exception left the loop body
Raised ==
    /\ pc' = "raised"
    /\ UNCHANGED <<rows, links, gi, si>>

\* one iteration of the loop body for a qualifying game: the opponent's schedule is
\* fetched, the next game resolved (with the schedule of season + 1 where the branch
\* asks for it) and the row appended
LinkGame ==
    /\ pc = "game"
    /\ gi <= Len(subject_schedule)
    /\ ~Skipped(subject_schedule[gi], args.play_mode)
    /\ LET game == subject_schedule[gi]
           season == args.seasons[si]
           opp_id == OppId(game)
           key == <<opp_id, season>>
           next_key == <<opp_id, season + 1>>
       IN  \E result \in get_team_schedule(cache, upstream, key) :
             LET opp_sched == result.games
                 c1 == Memoize(cache, key, result)
                 f1 == NoteFailure(cache, failed, key, result)
                 u1 == Contact(cache, upstream, key, result)
             IN  IF result.error = "payload"
                 THEN Raised /\ cache' = c1 /\ failed' = f1 /\ upstream' = u1
                 ELSE IF NeedsNextSeason(game, args.follow_mode, season, opp_sched)
                 THEN \E next_result \in get_team_schedule(c1, u1, next_key) :
                        LET next_sched == next_result.games
                            link == Resolve(game, args.follow_mode, season, opp_sched, next_sched)
                        IN  /\ cache' = Memoize(c1, next_key, next_result)
                            /\ failed' = NoteFailure(c1, f1, next_key, next_result)
                            /\ upstream' = Contact(c1, u1, next_key, next_result)
                            /\ IF next_result.error = "payload"
                               THEN Raised
                               ELSE Appended(GameRow(season, game, link),
                                        [game |-> game, opp_sched |-> opp_sched,
                                         next_sched |-> Some(next_sched),
                                         next_row |-> link.next_row])
                 ELSE LET link == Resolve(game, args.follow_mode, season, opp_sched, <<>>)
                      IN  /\ cache' = c1
                          /\ failed' = f1
                          /\ upstream' = u1
                          /\ Appended(GameRow(season, game, link),
                                 [game |-> game, opp_sched |-> opp_sched,
                                  next_sched |-> None, next_row |-> link.next_row])
    /\ UNCHANGED <<args, subject_schedule, page, kpi, fetch>>

Next == Call \/ FetchSubjectSchedule \/ SkipGame \/ LinkGame

Spec == Init /\ [][Next]_vars

----------------------------------------------------------------------------
\* Page runs one after the other in one process, against a source that does not change

\* largest number of times the pages call compute_honolulu_flu
MaxCalls == 3

\* what a call of compute_honolulu_flu gave its caller: an exception, or the rows
CallOutcome == [raised |-> pc = "raised", rows |-> IF pc = "done" THEN rows ELSE <<>>]

\* The games of the sources of SpecCalls: the subject team plays X on day 1 in week 1
\* (regular season or postseason, won or lost); X plays on the last day, in the last
\* week of the regular season
SampleGame(key, game) ==
    IF key[1] = SubjectTeam
    THEN /\ game.date = Some(1) /\ game.week = Some(1) /\ game.completed
         /\ game.season_type \in SeasonTypes
         /\ game.team_result \in {Some("W"), Some("L")}
         /\ game.opp_id = Some("X")
    ELSE /\ game.season = Some(key[2])
         /\ key[2] <= MaxSeason =>
               /\ game.date = Some(MaxTs)
               /\ game.season_type = REGULAR /\ game.week = Some(MaxWeek)

\* the answers of such a source for key: at most one game, or a failure (failures only
\* in the seasons a caller may ask for)
SampleAnswers(key) ==
    {r \in Upstream(key) :
        IF r.error = "none"
        THEN Len(r.games) <= 1 /\ \A j \in DOMAIN r.games : SampleGame(key, r.games[j])
        ELSE key[2] <= MaxSeason}

\* the keys a call can ask such a source for
SampleKeys == {<<SubjectTeam, y>> : y \in 1..MaxSeason} \cup {<<"X", y>> : y \in 1..(MaxSeason + 1)}

\* the source is one of the sample sources, not yet contacted; nothing is cached
InitCalls ==
    /\ \E src \in [SampleKeys -> UNION {SampleAnswers(key) : key \in SampleKeys}] :
         /\ \A key \in SampleKeys : src[key] \in SampleAnswers(key)
         /\ upstream = [key \in SampleKeys |->
                           [games |-> src[key].games, error |-> src[key].error, contacts |-> 0]]
    /\ cache = <<>>
    /\ failed = {}
    /\ args = NoArgs
    /\ pc = "idle"
    /\ si = 0
    /\ gi = 0
    /\ subject_schedule = <<>>
    /\ rows = <<>>
    /\ links = <<>>
    /\ calls = 0
    /\ last_fetched = FALSE
    /\ cleared = FALSE
    /\ history = {}
    /\ kpi = None
    /\ fetch = None

\* the page run is over (the rows are shown, or the error message); the next run of a
\* page can begin
Return ==
    /\ pc \in {"done", "raised"}
    /\ calls < MaxCalls
    /\ pc' = "idle"
    /\ history' = IF args.seasons = <<>> THEN history
                  ELSE history \cup {[args |-> args, outcome |-> CallOutcome]}
    /\ UNCHANGED <<cache, failed, args, si, gi, subject_schedule, rows, links, upstream,
                   calls, last_fetched, cleared, kpi, fetch>>

NextCalls == Call \/ FetchSubjectSchedule \/ SkipGame \/ LinkGame \/ Return

SpecCalls == InitCalls /\ [][NextCalls]_vars

----------------------------------------------------------------------------
\* The aggregates over a returned row list

\* largest number of rows of a list that is aggregated
MaxRows == 3

\* A game of the subject team and a game its opponent played afterwards
AnchorGame == GameRecord(Some(1), TRUE, Some(1), REGULAR, Some(1), Some("W"), "X")
LaterGame(o, t, w) == GameRecord(Some(2), o[1], Some(1), t, w, o[2], SubjectTeam)

\* The opponent schedules the aggregated rows come from: empty, one game in the next
\* week with each outcome, or no game in the next week and a postseason game later
SampleSchedules ==
    {<<>>} \cup {<<LaterGame(o, REGULAR, Some(2))>> : o \in Outcomes}
           \cup {<<LaterGame(<<TRUE, Some("L")>>, POSTSEASON, None)>>}

\* the locals of the iteration for AnchorGame with the opponent schedule opp_sched (the
\* opponent has no game in the season after)
SampleLink(follow_mode, opp_sched) ==
    [game |-> AnchorGame, opp_sched |-> opp_sched,
     next_sched |-> IF NeedsNextSeason(AnchorGame, follow_mode, 1, opp_sched)
                    THEN Some(<<>>) ELSE None,
     next_row |-> Resolve(AnchorGame, follow_mode, 1, opp_sched, <<>>).next_row]

\* a call has returned the rows of up to MaxRows games like AnchorGame
InitSummary ==
    /\ \E a \in Arguments, scheds \in Lists(SampleSchedules, MaxRows) :
         /\ a.seasons = <<1>>
         /\ args = a
         /\ rows = [i \in DOMAIN scheds |->
                      GameRow(1, AnchorGame,
                              Resolve(AnchorGame, a.follow_mode, 1, scheds[i], <<>>))]
         /\ links = [i \in DOMAIN scheds |-> SampleLink(a.follow_mode, scheds[i])]
    /\ pc = "done"
    /\ cache = <<>>
    /\ failed = {}
    /\ si = 2
    /\ gi = 1
    /\ subject_schedule = <<>>
    /\ upstream = <<>>
    /\ calls = 1
    /\ last_fetched = TRUE
    /\ cleared = TRUE
    /\ history = {}
    /\ kpi = None
    /\ fetch = None

\* the aggregates of the returned rows: summarize_percentage, the KPIs of the
\* single-team page, and the line of the compare page for the team
Summarize ==
    /\ pc = "done"
    /\ kpi = None
    /\ kpi' = Some([engine |-> summarize_percentage(rows),
                    single |-> app_kpis(rows, args.follow_mode),
                    compare |-> compare_team(rows)])
    /\ UNCHANGED <<cache, failed, args, pc, si, gi, subject_schedule, rows, links,
                   upstream, page, fetch>>

SpecSummary == InitSummary /\ [][Summarize]_vars

----------------------------------------------------------------------------
\* Properties

\* the rows built so far, by index; links[i] holds the locals behind rows[i]
RowIndices == 1..Len(rows)

\* the next-game record behind row i carries a result
NextHasResult(i) == links[i].next_row # None /\ links[i].next_row[1].team_result # None

\* C1 as stated: for every row, the flu verdict is non-null iff a next-game record was
\* resolved iff opp_next_result is non-null, also when the resolved next game is not
\* completed or carries no result.
C1_FluIffNextResolved ==
    \A i \in RowIndices :
        /\ honolulu_flu_loss(rows[i]) # None <=> links[i].next_row # None
        /\ links[i].next_row # None <=> rows[i].opp_next_result # None

\* C1 amended: for every row, the flu verdict is non-null iff opp_next_result is
\* non-null iff a next-game record was resolved and that record carries a result; a
\* resolved next game without a result gives a null verdict.
C1_FluIffNextResult ==
    \A i \in RowIndices :
        /\ honolulu_flu_loss(rows[i]) # None <=> rows[i].opp_next_result # None
        /\ rows[i].opp_next_result # None <=> NextHasResult(i)

\* C1 witness: a row whose next game was resolved but is not completed, with a null verdict
C1_Witness ==
    \E i \in RowIndices :
        /\ links[i].next_row # None
        /\ ~links[i].next_row[1].completed
        /\ honolulu_flu_loss(rows[i]) = None

\* C2 as stated: for every row, opp_next_cross_season is true iff a next game was
\* resolved and that game's season is the subject game's season + 1.
C2_CrossSeasonIffSeasonPlusOne ==
    \A i \in RowIndices :
        rows[i].opp_next_cross_season <=>
            /\ links[i].next_row # None
            /\ links[i].next_row[1].season = Some(rows[i].season + 1)

\* the opp_next_* fields of a row that hold a value of the next-game record
NextFields ==
    { "opp_next_date", "opp_next_week", "opp_next_week_label", "opp_next_result",
      "opp_next_opp_name", "opp_next_team_score", "opp_next_opp_score", "opp_next_is_home" }

\* the rows that are not marked as following a bye
WithoutByes(rs) == SelectSeq(rs, LAMBDA r : ~r.opp_next_after_bye)

\* C3: opp_next_after_bye is true only for rows computed with follow mode "week" from a
\* regular-season subject game; such a row has no next-game record, every opp_next_*
\* field null, a null verdict, opp_next_cross_season false, and it does not count in
\* the denominator of summarize_percentage.
C3_ByeRowsHaveNoNextGame ==
    /\ \A i \in RowIndices :
         rows[i].opp_next_after_bye =>
            /\ args.follow_mode = "week"
            /\ links[i].game.season_type = REGULAR
            /\ links[i].next_row = None
            /\ \A f \in NextFields : rows[i][f] = None
            /\ honolulu_flu_loss(rows[i]) = None
            /\ ~rows[i].opp_next_cross_season
    /\ summarize_percentage(rows)[2] = summarize_percentage(WithoutByes(rows))[2]

\* C3 witness: a returned row marked as following a bye
C3_Witness ==
    /\ pc = "done"
    /\ \E i \in RowIndices : rows[i].opp_next_after_bye

\* C4: for every row, the verdict is true iff a next-game record was found and its
\* result, from the opponent's side, is "L"; a found next game with result "W" or "T"
\* gives a false verdict; the subject team's own result does not enter.
C4_FluIffNextGameLost ==
    \A i \in RowIndices :
        /\ honolulu_flu_loss(rows[i]) = Some(TRUE) <=>
              (links[i].next_row # None /\ links[i].next_row[1].team_result = Some("L"))
        /\ (links[i].next_row # None /\ links[i].next_row[1].team_result \in {Some("W"), Some("T")})
              => honolulu_flu_loss(rows[i]) = Some(FALSE)

\* C4 witness (scenario A): the subject team beat the opponent in a regular-season week,
\* the opponent lost its game of the following week: verdict true, next result "L"
C4_Witness ==
    \E i \in RowIndices :
        /\ links[i].game.season_type = REGULAR
        /\ links[i].game.team_result = Some("W")
        /\ links[i].game.week # None
        /\ links[i].next_row # None
        /\ links[i].next_row[1].week = Some(links[i].game.week[1] + 1)
        /\ rows[i].opp_next_result = Some("L")
        /\ honolulu_flu_loss(rows[i]) = Some(TRUE)

\* C5 as stated: when the fetch of the subject team's own schedule for a requested
\* season hits a transport failure, compute_honolulu_flu fails with an error to the
\* caller; it does not return a row list.
C5_SubjectFetchFailureRaises ==
    pc = "done" =>
        \A k \in 1..Len(args.seasons) : <<args.subject_team_id, args.seasons[k]>> \notin failed

\* C6 as stated: a row whose opponent schedule for the subject game's season came back
\* empty has a null verdict, whatever the opponent's schedule of season + 1 contains.
C6_EmptyOpponentScheduleGivesNull ==
    \A i \in RowIndices :
        links[i].opp_sched = <<>> => honolulu_flu_loss(rows[i]) = None

\* whether a game of the subject team's schedule gets a row
Qualifies(game, play_mode) ==
    /\ game.season_type \in {REGULAR, POSTSEASON}
    /\ game.completed
    /\ play_mode = "beat" => game.team_result = Some("W")

\* the games the provider returned for the subject team in the first n seasons of the
\* call, season after season
RECURSIVE Discovered(_)
Discovered(n) ==
    IF n = 0 THEN <<>>
    ELSE Discovered(n - 1) \o cache[<<args.subject_team_id, args.seasons[n]>>]

\* the qualifying games of the call, in the order they were discovered
QualifyingGames ==
    SelectSeq(Discovered(Len(args.seasons)), LAMBDA game : Qualifies(game, args.play_mode))

\* the subject-side fields of row other than the date are those of game
SubjectSideOf(row, game) ==
    /\ Some(row.season) = game.season
    /\ row.week = game.week
    /\ row.week_label = game.week_text
    /\ row.is_home = game.is_home
    /\ Some(row.opp_id) = game.opp_id
    /\ Some(row.opp_name) = game.opp_name
    /\ row.lions_result = game.team_result
    /\ row.lions_team_score = game.team_score
    /\ row.lions_opp_score = game.opp_score

\* the date of row is the date of game: the same instant, and no date when game has none
DateOf(row, game) ==
    /\ game.date # None
    /\ ~row.date.is_text_None
    /\ row.date.instant = game.date[1]

\* C11 as stated: the returned rows are, in order, one row per qualifying game of the
\* subject team (season type REGULAR or POSTSEASON, completed, and won under play mode
\* "beat"), seasons in the order of the argument and games in the provider's order within
\* a season, and no other row; each row carries the subject-side fields of its game
\* unchanged.
C11_OneRowPerQualifyingGameUnchanged ==
    pc = "done" =>
        /\ Len(rows) = Len(QualifyingGames)
        /\ \A i \in RowIndices :
              /\ links[i].game = QualifyingGames[i]
              /\ SubjectSideOf(rows[i], QualifyingGames[i])
              /\ DateOf(rows[i], QualifyingGames[i])

\* What the code does satisfy of C11: one row per qualifying game and no other, in the
\* order of discovery, with the subject-side fields other than the date unchanged; the
\* date is unchanged when the game has one.
OneRowPerQualifyingGame ==
    pc = "done" =>
        /\ Len(rows) = Len(QualifyingGames)
        /\ \A i \in RowIndices :
              /\ links[i].game = QualifyingGames[i]
              /\ SubjectSideOf(rows[i], QualifyingGames[i])
              /\ QualifyingGames[i].date # None => DateOf(rows[i], QualifyingGames[i])

\* the instant of the subject game behind a row; a game without a date counts as instant 0
SubjectTs(i) == IF links[i].game.date = None THEN 0 ELSE links[i].game.date[1]

\* the positions of the games of sched that carry a date
DatedPositions(sched) == {j \in DOMAIN sched : sched[j].date # None}

\* the positions of the games of sched dated strictly after the subject game of row i
LaterPositions(i, sched) == {j \in DatedPositions(sched) : sched[j].date[1] > SubjectTs(i)}

\* r is a game of sched at one of the positions idxs (all dated), and none of them is earlier
IsEarliest(sched, idxs, r) ==
    \E j \in idxs : /\ sched[j] = r
                    /\ \A k \in idxs : sched[k].date[1] >= sched[j].date[1]

\* the next game of row i is the earliest of the games of sched at idxs, and there is
\* no next game when idxs is empty
NextIsEarliest(i, sched, idxs) ==
    IF idxs = {} THEN links[i].next_row = None
    ELSE links[i].next_row # None /\ IsEarliest(sched, idxs, links[i].next_row[1])

\* row i comes from a postseason game the subject team lost
LostPlayoffGame(i) ==
    links[i].game.season_type = POSTSEASON /\ links[i].game.team_result = Some("L")

\* the row the branch of follow_mode builds from the game and the schedules of row i
RowUnder(follow_mode, i) ==
    GameRow(rows[i].season, links[i].game,
            Resolve(links[i].game, follow_mode, rows[i].season, links[i].opp_sched,
                    IF links[i].next_sched = None THEN <<>> ELSE links[i].next_sched[1]))

\* C7: for a postseason subject game that the subject team lost, the next game is the
\* opponent's postseason game of the same season with the smallest timestamp strictly
\* after the subject game's; regular-season games and games of other seasons are never
\* chosen; crossSeason is false; when there is no such game the row has no next game
\* and the schedule of season + 1 is not consulted; both follow modes give the same row.
C7_LostPlayoffGameNextPostseasonGame ==
    \A i \in RowIndices :
        LostPlayoffGame(i) =>
            LET opp_sched == links[i].opp_sched
                later_playoffs == {j \in LaterPositions(i, opp_sched) :
                                      /\ opp_sched[j].season_type = POSTSEASON
                                      /\ opp_sched[j].season = Some(rows[i].season)}
            IN  /\ NextIsEarliest(i, opp_sched, later_playoffs)
                /\ ~rows[i].opp_next_cross_season
                /\ ~rows[i].opp_next_after_bye
                /\ links[i].next_sched = None
                /\ RowUnder("week", i) = rows[i]
                /\ RowUnder("game", i) = rows[i]

\* C7 witness: a lost postseason game whose opponent has a later game that is passed
\* over (regular season, or of another season) and dated before the postseason game chosen
C7_Witness ==
    \E i \in RowIndices :
        /\ LostPlayoffGame(i)
        /\ links[i].next_row # None
        /\ \E j \in LaterPositions(i, links[i].opp_sched) :
              LET r == links[i].opp_sched[j]
              IN  /\ r.date[1] < links[i].next_row[1].date[1]
                  /\ (r.season_type = REGULAR \/ r.season # Some(rows[i].season))

\* row i comes from a postseason game the subject team won or tied
WonPlayoffGame(i) ==
    /\ links[i].game.season_type = POSTSEASON
    /\ links[i].game.team_result \in {Some("W"), Some("T")}

\* the schedule of season + 1 consulted for row i (empty when none was)
NextSched(i) == IF links[i].next_sched = None THEN <<>> ELSE links[i].next_sched[1]

\* the next game of row i is the chronologically earliest game of the opponent's
\* season + 1 schedule among the season types in types (a game without a date is the
\* next game only when no game of these types has one), there is no next game when the
\* schedule has no game of these types, and crossSeason is true exactly when there is a
\* next game
FallsBackTo(i, types) ==
    LET sched == NextSched(i)
        candidates == {j \in DOMAIN sched : sched[j].season_type \in types}
        dated == candidates \cap DatedPositions(sched)
    IN  /\ links[i].next_sched # None
        /\ IF candidates = {} THEN links[i].next_row = None
           ELSE IF dated = {}
                THEN /\ links[i].next_row # None
                     /\ \E j \in candidates : sched[j] = links[i].next_row[1]
                ELSE NextIsEarliest(i, sched, dated)
        /\ rows[i].opp_next_cross_season <=> links[i].next_row # None
        /\ ~rows[i].opp_next_after_bye

\* C8 as stated: for a postseason subject game that the subject team won or tied, the
\* next game is the chronologically earliest regular-season game of the opponent's
\* season + 1 schedule, whatever its date and whatever the opponent still plays in the
\* current season; crossSeason is true exactly when such a game is found; both follow
\* modes give the same row.
C8_WonPlayoffGameFirstRegularGameNextSeason ==
    \A i \in RowIndices :
        WonPlayoffGame(i) =>
            /\ FallsBackTo(i, {REGULAR})
            /\ RowUnder("week", i) = rows[i]
            /\ RowUnder("game", i) = rows[i]

\* row i comes from a regular-season game, computed under follow_mode
RegularGameUnder(follow_mode, i) ==
    links[i].game.season_type = REGULAR /\ args.follow_mode = follow_mode

\* the rule of follow mode "week" for row i (a regular-season game with a week number)
NextWeekRule(i) ==
    LET opp_sched == links[i].opp_sched
        next_week == {j \in DOMAIN opp_sched :
                         /\ opp_sched[j].season_type = REGULAR
                         /\ opp_sched[j].week = Some(links[i].game.week[1] + 1)}
        later_same_season == {j \in LaterPositions(i, opp_sched) :
                                 opp_sched[j].season = Some(rows[i].season)}
    IN  IF next_week # {}
        THEN /\ links[i].next_row # None
             /\ \E j \in next_week : opp_sched[j] = links[i].next_row[1]
             /\ ~rows[i].opp_next_after_bye
             /\ ~rows[i].opp_next_cross_season
        ELSE IF later_same_season # {}
        THEN /\ rows[i].opp_next_after_bye
             /\ links[i].next_row = None
             /\ ~rows[i].opp_next_cross_season
        ELSE FallsBackTo(i, {REGULAR})

\* the rule of follow mode "game" for row i (a regular-season game)
NextPlayedGameRule(i) ==
    LET later == LaterPositions(i, links[i].opp_sched)
    IN  IF later # {}
        THEN /\ NextIsEarliest(i, links[i].opp_sched, later)
             /\ ~rows[i].opp_next_cross_season
             /\ ~rows[i].opp_next_after_bye
             /\ links[i].next_sched = None
        ELSE FallsBackTo(i, SeasonTypes)

\* C9 as stated: for a regular-season subject game under follow mode "game", the next
\* game is the game of the opponent's same-season schedule, of any season type, with
\* the smallest timestamp strictly after the subject game's; only when there is none is
\* the chronologically earliest game of the season + 1 schedule used, and crossSeason
\* is true exactly when that fallback supplies the game.
C9_NextPlayedGame ==
    \A i \in RowIndices : RegularGameUnder("game", i) => NextPlayedGameRule(i)

\* C10 as stated: for a regular-season subject game in week w under follow mode "week":
\* a regular-season game of week w + 1 in the opponent's same-season schedule is the
\* next game (no bye, no cross-season); else, if the opponent has a same-season game
\* dated strictly after the subject game, the row is a bye without next game; else the
\* next game is the chronologically earliest regular-season game of the season + 1
\* schedule, crossSeason true exactly when one is found.
C10_NextWeek ==
    \A i \in RowIndices :
        (RegularGameUnder("week", i) /\ links[i].game.week # None) => NextWeekRule(i)

\* every game of the season + 1 schedule consulted for row i carries a date
NextSchedDated(i) == \A j \in DOMAIN NextSched(i) : NextSched(i)[j].date # None

\* What the code does satisfy of C8, C9 and C10: each holds of every row whose
\* season + 1 schedule holds no game without a date.
FallbackClaimsOnDatedSchedules ==
    \A i \in RowIndices :
        NextSchedDated(i) =>
            /\ WonPlayoffGame(i) => FallsBackTo(i, {REGULAR})
            /\ RegularGameUnder("game", i) => NextPlayedGameRule(i)
            /\ (RegularGameUnder("week", i) /\ links[i].game.week # None) => NextWeekRule(i)

----------------------------------------------------------------------------
\* src/hf/espn.py on the raw answers of the upstream source

\* largest score of a competitor
MaxScore == 1

\* The "score" of a competitor as the source writes it: missing, a text of digits
\* ("34"), a text that is no number, or an object {"value": 34.0}
ScoreFields ==
    {[kind |-> "null", n |-> 0], [kind |-> "junk", n |-> 0]}
    \cup {[kind |-> k, n |-> n] : k \in {"text", "value"}, n \in 0..MaxScore}

\* _extract_score
_extract_score(score_field) ==
    IF score_field.kind \in {"text", "value"} THEN Some(score_field.n) ELSE None

\* one entry of "competitors"; winner is None when the entry has no "winner"
Competitor(id, winner, score, homeAway) ==
    [team_id |-> id, winner |-> winner, score |-> score, homeAway |-> homeAway]

\* one entry of "events"
Event(competitors, completed, date, season_type, week) ==
    [competitors |-> competitors, completed |-> completed, date |-> date,
     season |-> Some(1), season_type |-> season_type, week |-> week]

\* the largest element of a non-empty set of indices
Last(S) == CHOOSE i \in S : \A j \in S : j <= i

\* the record with the result read from the scores before the winner marks
parse_game_scores_first(team_id, event) ==
    LET competitors == event.competitors
        team_idx == {i \in DOMAIN competitors : competitors[i].team_id = team_id}
        opp_idx == DOMAIN competitors \ team_idx
    IN  IF Len(competitors) < 2 \/ team_idx = {} \/ opp_idx = {} THEN None
        ELSE LET team_side == competitors[Last(team_idx)]
                 opp_side == competitors[Last(opp_idx)]
                 team_score == _extract_score(team_side.score)
                 opp_score == _extract_score(opp_side.score)
                 result ==
                     IF ~event.completed THEN None
                     ELSE IF team_score # None /\ opp_score # None
                     THEN Some(IF team_score[1] > opp_score[1] THEN "W"
                               ELSE IF team_score[1] < opp_score[1] THEN "L" ELSE "T")
                     ELSE IF team_side.winner = Some(TRUE) THEN Some("W")
                     ELSE IF opp_side.winner = Some(TRUE) THEN Some("L")
                     ELSE None
             IN  Some([ date |-> event.date, completed |-> event.completed,
                        season |-> event.season, season_type |-> event.season_type,
                        week |-> event.week, week_text |-> Some("wk"),
                        is_home |-> team_side.homeAway = "home",
                        team_score |-> team_score,
                        opp_id |-> Some(opp_side.team_id), opp_name |-> Some(opp_side.team_id),
                        opp_score |-> opp_score, team_result |-> result ])

\* _parse_game: None for an event without two competitors, without a competitor of
\* team_id or without another one; else the record of the game from team_id's side
_parse_game(team_id, event) ==
    LET competitors == event.competitors
        team_idx == {i \in DOMAIN competitors : competitors[i].team_id = team_id}
        opp_idx == DOMAIN competitors \ team_idx
    IN  IF Len(competitors) < 2 THEN None
        ELSE IF team_idx = {} \/ opp_idx = {} THEN None
        ELSE LET team_side == competitors[Last(team_idx)]
                 opp_side == competitors[Last(opp_idx)]
                 team_score == _extract_score(team_side.score)
                 opp_score == _extract_score(opp_side.score)
                 result ==
                     IF ~event.completed THEN None
                     ELSE IF team_side.winner = Some(TRUE) THEN Some("W")
                     ELSE IF opp_side.winner = Some(TRUE) THEN Some("L")
                     ELSE IF team_score # None /\ opp_score # None
                     THEN Some(IF team_score[1] > opp_score[1] THEN "W"
                               ELSE IF team_score[1] < opp_score[1] THEN "L" ELSE "T")
                     ELSE None
             IN  Some([ date |-> event.date, completed |-> event.completed,
                        season |-> event.season, season_type |-> event.season_type,
                        week |-> event.week, week_text |-> Some("wk"),
                        is_home |-> team_side.homeAway = "home",
                        team_score |-> team_score,
                        opp_id |-> Some(opp_side.team_id), opp_name |-> Some(opp_side.team_id),
                        opp_score |-> opp_score, team_result |-> result ])

\* the loop over the events that ends at the first event that does not parse
RECURSIVE parse_events_until_unparseable(_, _, _)
parse_events_until_unparseable(team_id, events, i) ==
    IF i > Len(events) THEN <<>>
    ELSE LET row == _parse_game(team_id, events[i])
         IN  IF row = None THEN <<>>
             ELSE <<[event |-> events[i], row |-> row[1]]>>
                  \o parse_events_until_unparseable(team_id, events, i + 1)

\* "for ev in events": the events that parse, each with its record, in order
RECURSIVE parse_events(_, _, _)
parse_events(team_id, events, i) ==
    IF i > Len(events) THEN <<>>
    ELSE LET row == _parse_game(team_id, events[i])
         IN  (IF row # None THEN <<[event |-> events[i], row |-> row[1]]>> ELSE <<>>)
             \o parse_events(team_id, events, i + 1)

\* what get_team_schedule gives back: an exception, or the sorted games; parsed keeps
\* each record with the event it came from
Outcome(raised, parsed) ==
    [raised |-> raised,
     games |-> IF raised THEN <<>>
               ELSE sort_by_date([i \in DOMAIN parsed |-> parsed[i].row]),
     parsed |-> parsed]

\* the loop over the partitions in which the failure of a request ends the call
RECURSIVE partition_loop_failure_ends_call(_, _, _, _)
partition_loop_failure_ends_call(team_id, answers, k, parsed) ==
    IF k > Len(answers) THEN Outcome(FALSE, parsed)
    ELSE IF answers[k].status = "failure" THEN Outcome(FALSE, <<>>)
    ELSE IF answers[k].status = "not_object" THEN Outcome(TRUE, parsed)
    ELSE partition_loop_failure_ends_call(team_id, answers, k + 1,
             parsed \o parse_events(team_id, answers[k].events, 1))

\* "for season_type in [2, 3]": answers[k] is what the request of partition k met.
\* A failure inside the try block skips the partition; an answer that is no JSON object
\* makes data.get raise outside the try block.
RECURSIVE partition_loop(_, _, _, _)
partition_loop(team_id, answers, k, parsed) ==
    IF k > Len(answers) THEN Outcome(FALSE, parsed)
    ELSE IF answers[k].status = "failure"
    THEN partition_loop(team_id, answers, k + 1, parsed)
    ELSE IF answers[k].status = "not_object" THEN Outcome(TRUE, parsed)
    ELSE partition_loop(team_id, answers, k + 1,
             parsed \o parse_events(team_id, answers[k].events, 1))

\* the body of get_team_schedule (what runs when the lru_cache has no entry)
get_team_schedule__wrapped(team_id, answers) == partition_loop(team_id, answers, 1, <<>>)

\* The answers a request can meet
Failure == [status |-> "failure", events |-> <<>>]
NotObject == [status |-> "not_object", events |-> <<>>]
Ok(events) == [status |-> "ok", events |-> events]

\* the winner marks of the two sides of a game: at most one side is marked the winner
WinnerMarks ==
    {m \in {None, Some(TRUE), Some(FALSE)} \X {None, Some(TRUE), Some(FALSE)} :
        ~(m[1] = Some(TRUE) /\ m[2] = Some(TRUE))}

\* Events of a regular-season game of the subject team against X with every
\* combination of completion, winner marks and scores
ResultEvents ==
    { Event(<<Competitor(SubjectTeam, m[1], st, "home"), Competitor("X", m[2], so, "away")>>,
            c, Some(1), REGULAR, Some(1)) :
        m \in WinnerMarks, st \in ScoreFields, so \in ScoreFields, c \in BOOLEAN }

\* a competitor entry of a finished game
Side(id, score) == Competitor(id, None, [kind |-> "text", n |-> score], "away")

\* Events of mixed shape: a regular-season game, a postseason game with a week number,
\* a game without date, and events that do not parse for the subject team (one
\* competitor, no competitor of the team, no competitor of another team)
ShapeEvents ==
    { Event(<<Side(SubjectTeam, 1), Side("X", 0)>>, TRUE, Some(2), REGULAR, Some(1)),
      Event(<<Side("Y", 1), Side(SubjectTeam, 0)>>, TRUE, Some(1), POSTSEASON, Some(1)),
      Event(<<Side(SubjectTeam, 1), Side("Y", 1)>>, TRUE, None, POSTSEASON, None),
      Event(<<Side(SubjectTeam, 1)>>, TRUE, Some(1), REGULAR, Some(1)),
      Event(<<Side("X", 1), Side("Y", 0)>>, TRUE, Some(1), REGULAR, Some(2)),
      Event(<<Side(SubjectTeam, 1), Side(SubjectTeam, 0)>>, TRUE, Some(2), REGULAR, Some(2)) }

\* largest number of events in the answer to one request
MaxEvents == 2

\* the pairs of answers (regular season, postseason) of one call
Answers ==
    {<<Ok(<<e>>), Ok(<<>>)>> : e \in ResultEvents}
    \cup ( ({Failure, NotObject} \cup {Ok(es) : es \in Lists(ShapeEvents, MaxEvents)})
           \X ({Failure, NotObject} \cup {Ok(es) : es \in Lists(ShapeEvents, MaxEvents)}) )

\* get_team_schedule(SubjectTeam, 1) is called with an empty cache
InitProvider ==
    /\ \E answers \in Answers :
         fetch = Some([team_id |-> SubjectTeam, answers |-> answers, outcome |-> None])
    /\ cache = <<>>
    /\ failed = {}
    /\ args = NoArgs
    /\ pc = "idle"
    /\ si = 0
    /\ gi = 0
    /\ subject_schedule = <<>>
    /\ rows = <<>>
    /\ links = <<>>
    /\ upstream = <<>>
    /\ calls = 0
    /\ last_fetched = FALSE
    /\ cleared = FALSE
    /\ history = {}
    /\ kpi = None

\* the call returns, or raises
FetchSchedule ==
    /\ fetch # None
    /\ fetch[1].outcome = None
    /\ LET outcome == get_team_schedule__wrapped(fetch[1].team_id, fetch[1].answers)
       IN  /\ fetch' = Some([fetch[1] EXCEPT !.outcome = Some(outcome)])
           /\ cache' = IF outcome.raised THEN cache
                       ELSE cache @@ (<<fetch[1].team_id, 1>> :> outcome.games)
    /\ UNCHANGED <<failed, args, pc, si, gi, subject_schedule, rows, links,
                   upstream, page, kpi>>

SpecProvider == InitProvider /\ [][FetchSchedule]_vars

----------------------------------------------------------------------------
\* Properties of the aggregates (under SpecSummary)

\* the number of rows whose verdict is v
Verdicts(v) == Cardinality({i \in RowIndices : honolulu_flu_loss(rows[i]) = v})

\* the ratio q is the percentage of losses among total, and lies between 0 and 100
IsPercentage(q, losses, total) ==
    /\ q[1] * total = losses * 100 * q[2]
    /\ q[2] > 0
    /\ 0 <= q[1] /\ q[1] <= 100 * q[2]

\* summarize_percentage: total counts the rows with a verdict, losses those with verdict
\* true, total = losses + the rows with verdict false, the percentage is losses / total
\* * 100 within 0..100 when total > 0, and None when total = 0
SummarizePercentageContract ==
    kpi # None =>
        LET losses == kpi[1].engine[1]
            total == kpi[1].engine[2]
            pct == kpi[1].engine[3]
        IN  /\ total = Verdicts(Some(TRUE)) + Verdicts(Some(FALSE))
            /\ losses = Verdicts(Some(TRUE))
            /\ total > 0 => pct # None /\ IsPercentage(pct[1], losses, total)
            /\ total = 0 => pct = None

\* the single-team page shows the losses and total of summarize_percentage, the same
\* percentage when total > 0 and 0 when total = 0
SinglePageContract ==
    kpi # None =>
        LET engine == kpi[1].engine
            single == kpi[1].single
        IN  /\ single[1] = engine[1]
            /\ single[2] = engine[2]
            /\ engine[2] > 0 => IsPercentage(single[3], engine[1], engine[2])
            /\ engine[2] = 0 => single[3][1] = 0

\* the compare page computes, for the team, the losses and total of the single-team
\* page, and shows 0 when total = 0
ComparePageContract ==
    kpi # None =>
        LET single == kpi[1].single
            compare == kpi[1].compare
        IN  /\ compare.error = "none"
            /\ compare.losses = single[1]
            /\ compare.total = single[2]
            /\ single[2] = 0 => compare.pct[1] = 0

\* C12 as stated: over any list of rows, total = number of rows with a verdict, losses
\* = number of rows with verdict true, total = losses + number of rows with verdict
\* false, percentage = losses / total * 100 within 0..100 when total > 0, and undefined
\* (None, shown as 0 by the pages) without a division when total = 0; the KPIs of the
\* single-team page and the per-team computation of the compare page yield the same
\* losses and total for the same rows.
C12_AggregateContract ==
    SummarizePercentageContract /\ SinglePageContract /\ ComparePageContract

\* What the code does satisfy of C12: summarize_percentage and the single-team page
\* always, the compare page for every team with at least one row.
AggregateContractOnRows ==
    /\ SummarizePercentageContract
    /\ SinglePageContract
    /\ rows # <<>> => ComparePageContract

----------------------------------------------------------------------------
\* Properties of the selections by date (under Spec)

\* the next game of row i, if any, was picked by an "earliest game" selection (and not
\* by its week number)
ChosenByDate(i) ==
    \/ links[i].game.season_type = POSTSEASON
    \/ args.follow_mode = "game"
    \/ rows[i].opp_next_cross_season

\* C16 as stated: in every "earliest game" selection (next game after a date, next
\* postseason game, and the season + 1 fallbacks) a record whose date is missing or
\* unparsable is excluded from the candidates: it is never chosen as the next game and
\* never keeps a record with a date from being chosen.
C16_UndatedRecordsExcluded ==
    \A i \in RowIndices :
        (ChosenByDate(i) /\ links[i].next_row # None) => links[i].next_row[1].date # None

\* What the code does satisfy of C16: the selections within the season of the subject
\* game (_pick_next_game_after, _pick_next_game_after_with_filters) never choose a
\* record without a date.
UndatedRecordsExcludedWithinSeason ==
    \A i \in RowIndices :
        (ChosenByDate(i) /\ ~rows[i].opp_next_cross_season /\ links[i].next_row # None)
            => links[i].next_row[1].date # None

----------------------------------------------------------------------------
\* Properties of the schedule provider (under SpecProvider)

\* the call of get_team_schedule has ended
Returned == fetch # None /\ fetch[1].outcome # None

\* no request of the call was answered with JSON that is not an object
AnswersAreObjects == \A k \in DOMAIN fetch[1].answers : fetch[1].answers[k].status # "not_object"

\* the events in the answer to the request of partition k (none when the request failed)
EventsOf(k) == IF fetch[1].answers[k].status = "ok" THEN fetch[1].answers[k].events ELSE <<>>

\* an event has two competitors or more, one of the team and one of another team
WellFormed(team_id, event) ==
    /\ Len(event.competitors) >= 2
    /\ \E i \in DOMAIN event.competitors : event.competitors[i].team_id = team_id
    /\ \E i \in DOMAIN event.competitors : event.competitors[i].team_id # team_id

\* how often x occurs in the sequence seq
Count(x, seq) == Cardinality({i \in DOMAIN seq : seq[i] = x})

\* the sequences seq1 and seq2 hold the same elements, each as often
SameElements(seq1, seq2) ==
    /\ Len(seq1) = Len(seq2)
    /\ \A i \in DOMAIN seq1 : Count(seq1[i], seq1) = Count(seq1[i], seq2)

\* the records of the events of partition k that parse
GamesOf(k) ==
    LET parsed == parse_events(fetch[1].team_id, EventsOf(k), 1)
    IN  [i \in DOMAIN parsed |-> parsed[i].row]

\* C13: the two partitions are fetched independently: when the request of one fails,
\* the call does not raise and returns every parseable game of the other (none from
\* the failed one); when both fail or the source has no games, it returns the empty
\* list.  (The answers that arrive are JSON objects.)
C13_PartitionsFetchedIndependently ==
    (Returned /\ AnswersAreObjects) =>
        LET outcome == fetch[1].outcome[1]
        IN  /\ ~outcome.raised
            /\ SameElements(outcome.games, GamesOf(1) \o GamesOf(2))
            /\ (\A k \in {1, 2} : EventsOf(k) = <<>>) => outcome.games = <<>>

\* C13 witness: the regular-season request failed, the postseason request brought games,
\* and the call returned them
C13_Witness ==
    /\ Returned
    /\ fetch[1].answers[1].status = "failure"
    /\ GamesOf(2) # <<>>
    /\ ~fetch[1].outcome[1].raised
    /\ fetch[1].outcome[1].games # <<>>

\* the competitor of event on the side of team_id, and the one on the other side
TeamSideOf(team_id, event) ==
    event.competitors[CHOOSE i \in DOMAIN event.competitors :
                          event.competitors[i].team_id = team_id]
OppSideOf(team_id, event) ==
    event.competitors[CHOOSE i \in DOMAIN event.competitors :
                          event.competitors[i].team_id # team_id]

\* the score field holds a number
ScorePresent(side) == side.score.kind \in {"text", "value"}

\* the result that the scores of the two sides give
ByScores(team_side, opp_side) ==
    IF team_side.score.n > opp_side.score.n THEN Some("W")
    ELSE IF team_side.score.n < opp_side.score.n THEN Some("L") ELSE Some("T")

\* C17: for every record of _parse_game: a game that is not completed has no result; a
\* completed game with a winner mark has "W" when the team's side is the winner and "L"
\* when the other side is, whatever the scores; a completed game without winner mark
\* and with both scores has the result of comparing them; otherwise there is no result.
C17_ResultFromWinnerThenScores ==
    Returned =>
        \A i \in DOMAIN fetch[1].outcome[1].parsed :
            LET event == fetch[1].outcome[1].parsed[i].event
                row == fetch[1].outcome[1].parsed[i].row
                team_side == TeamSideOf(fetch[1].team_id, event)
                opp_side == OppSideOf(fetch[1].team_id, event)
                marked == team_side.winner = Some(TRUE) \/ opp_side.winner = Some(TRUE)
                scored == ScorePresent(team_side) /\ ScorePresent(opp_side)
            IN  /\ ~event.completed => row.team_result = None
                /\ (event.completed /\ team_side.winner = Some(TRUE))
                      => row.team_result = Some("W")
                /\ (event.completed /\ opp_side.winner = Some(TRUE))
                      => row.team_result = Some("L")
                /\ (event.completed /\ ~marked /\ scored)
                      => row.team_result = ByScores(team_side, opp_side)
                /\ (event.completed /\ ~marked /\ ~scored) => row.team_result = None

\* C17 witness: a completed game whose winner mark is on the team's side although the
\* team's score is the lower one, recorded as "W"
C17_Witness ==
    /\ Returned
    /\ \E i \in DOMAIN fetch[1].outcome[1].parsed :
          LET event == fetch[1].outcome[1].parsed[i].event
              team_side == TeamSideOf(fetch[1].team_id, event)
              opp_side == OppSideOf(fetch[1].team_id, event)
          IN  /\ event.completed
              /\ team_side.winner = Some(TRUE)
              /\ ScorePresent(team_side) /\ ScorePresent(opp_side)
              /\ team_side.score.n < opp_side.score.n
              /\ fetch[1].outcome[1].parsed[i].row.team_result = Some("W")

\* C18 as stated: in every record the provider returns, week is present only when
\* season_type is REGULAR; a postseason record never carries a week number.
C18_WeekOnlyInRegularSeason ==
    Returned =>
        \A j \in DOMAIN fetch[1].outcome[1].games :
            fetch[1].outcome[1].games[j].week # None
                => fetch[1].outcome[1].games[j].season_type = REGULAR

\* C19: an event that cannot be parsed for the requested team (fewer than two
\* competitors, no competitor of the team, no competitor of another team) gives no
\* record and no error, and every other event of the answers is returned: the records
\* are those of the well-formed events, one each, in the order of the events.
C19_UnparseableEventsDropped ==
    (Returned /\ AnswersAreObjects) =>
        LET outcome == fetch[1].outcome[1]
            well_formed == SelectSeq(EventsOf(1) \o EventsOf(2),
                                     LAMBDA event : WellFormed(fetch[1].team_id, event))
        IN  /\ ~outcome.raised
            /\ [i \in DOMAIN outcome.parsed |-> outcome.parsed[i].event] = well_formed
            /\ SameElements(outcome.games,
                            [i \in DOMAIN outcome.parsed |-> outcome.parsed[i].row])

\* C19 witness: an answer holds an event that cannot be parsed followed by one that
\* can, and the call returned the record of the second
C19_Witness ==
    /\ Returned
    /\ \E k \in {1, 2} :
          /\ Len(EventsOf(k)) = 2
          /\ ~WellFormed(fetch[1].team_id, EventsOf(k)[1])
          /\ WellFormed(fetch[1].team_id, EventsOf(k)[2])
          /\ \E j \in DOMAIN fetch[1].outcome[1].games :
                Some(fetch[1].outcome[1].games[j]) = _parse_game(fetch[1].team_id, EventsOf(k)[2])

----------------------------------------------------------------------------
\* Properties of the page runs

\* C15: a season range with end < start gives the empty season list, and a page run
\* with the empty season list ends at once without an exception: compute_honolulu_flu
\* is not called, the schedule provider and the upstream source are not contacted,
\* there are no rows, and the page's figures are 0 losses of 0 considered games.
C15_EmptyRangeRejected ==
    /\ \A start \in 1..(MaxSeason + 1), end \in 1..MaxSeason :
          end < start <=> SeasonRange(start, end) = <<>>
    /\ (pc # "idle" /\ args.seasons = <<>>) =>
          /\ pc = "done"
          /\ calls = 0
          /\ ~last_fetched /\ ~cleared
          /\ cache = <<>> /\ upstream = <<>> /\ failed = {}
          /\ rows = <<>>
          /\ app_kpis(rows, args.follow_mode) = <<0, 0, Ratio(0, 1)>>
          /\ summarize_percentage(rows) = <<0, 0, None>>

\* C15 witness: a page run with the rejected range "from season 2 through season 1"
\* is over
C15_Witness ==
    /\ pc = "done"
    /\ args.seasons = SeasonRange(MaxSeason + 1, MaxSeason)
    /\ args.seasons = <<>>

\* C14: against a source that does not change, two calls of compute_honolulu_flu with
\* the same arguments end the same way and return the same rows (same length, same
\* order, every field equal), whatever calls were made before or between them and
\* whatever these left in the schedule cache.
C14_SameArgumentsSameRows ==
    /\ \A h1 \in history, h2 \in history : h1.args = h2.args => h1.outcome = h2.outcome
    /\ (pc \in {"done", "raised"} /\ args.seasons # <<>>) =>
          \A h \in history : h.args = args => h.outcome = CallOutcome

\* C14 witness: a call returned rows, an earlier call had the same arguments, and a
\* call for another mode was made as well, so that the cache was filled before
C14_Witness ==
    /\ pc = "done"
    /\ rows # <<>>
    /\ calls = MaxCalls
    /\ \E h \in history : h.args = args /\ h.outcome.rows = rows
    /\ \E h \in history : h.args # args /\ h.args.play_mode # args.play_mode

====
